---- MODULE Spec2Model ----
(***************************************************************************)
(* Model of VW::config::typed_option<T>, typed_option_with_location<T>,    *)
(* typed_option_visitor and the equality operators of                      *)
(* vowpalwabbit/config/option.h.                                           *)
(*                                                                         *)
(* A std::shared_ptr<T> is a sequence of length at most one: << >> is      *)
(* nullptr, <<v>> points to v.  A call returns <<"ok", r>> or, when it     *)
(* leaves through THROW, <<"throw", message>>.  A std::string is a TLA+    *)
(* string, a std::vector<std::string> a sequence of strings, a float one   *)
(* of a few finite literals.                                               *)
(***************************************************************************)
EXTENDS Integers, Sequences, FiniteSets, TLC

VARIABLES opt, other, loc, last, hist

vars == <<opt, other, loc, last, hist>>

(***************************************************************************)
(* Bounds and input domains.                                               *)
(***************************************************************************)
MaxInt == 1

Types == {"uint32_t", "uint64_t", "int64_t", "int32_t", "bool", "float",
          "std::string", "std::vector<std::string>"}

UnsignedTypes == {"uint32_t", "uint64_t"}

SignedTypes == {"int32_t", "int64_t"}

Names == {"batch-size", "opt"}

Helps == {"", "size of a batch"}

ShortNames == {"", "b"}

StringOrder == <<"bfgs", "sgd">>

Values(T) ==
  CASE T \in UnsignedTypes -> 0 .. MaxInt
    [] T \in SignedTypes -> (0 - 1) .. (MaxInt - 1)
    [] T = "bool" -> BOOLEAN
    [] T = "float" -> {"0.5", "1.5"}
    [] T = "std::string" -> {StringOrder[i] : i \in 1 .. Len(StringOrder)}
    [] OTHER -> {<< >>, <<"sgd">>}

Ok(r) == <<"ok", r>>

Throw(msg) == <<"throw", msg>>

(***************************************************************************)
(* std::to_string on the integer types: decimal digits, '-' when negative. *)
(***************************************************************************)
Digit(d) == <<"0", "1", "2", "3", "4", "5", "6", "7", "8", "9">>[d + 1]

RECURSIVE NatToString(_)
NatToString(n) ==
  IF n < 10 THEN Digit(n) ELSE NatToString(n \div 10) \o Digit(n % 10)

to_string(n) == IF n < 0 THEN "-" \o NatToString(0 - n) ELSE NatToString(n)

(***************************************************************************)
(* std::set<T> iterates in ascending order of std::less<T>.                *)
(***************************************************************************)
Rank(s) == CHOOSE i \in 1 .. Len(StringOrder) : StringOrder[i] = s

Less(T, a, b) == IF T = "std::string" THEN Rank(a) < Rank(b) ELSE a < b

RECURSIVE SetInOrder(_, _)
SetInOrder(T, S) ==
  IF S = {} THEN << >>
  ELSE LET m == CHOOSE x \in S : \A y \in S \ {x} : Less(T, x, y)
       IN <<m>> \o SetInOrder(T, S \ {m})

FormatElem(T, x) == IF T = "std::string" THEN x ELSE to_string(x)

RECURSIVE Join(_, _, _)
Join(T, seq, sep) ==
  IF Len(seq) = 0 THEN ""
  ELSE IF Len(seq) = 1 THEN FormatElem(T, seq[1])
  ELSE FormatElem(T, seq[1]) \o sep \o Join(T, Tail(seq), sep)

(***************************************************************************)
(* Construction.                                                           *)
(***************************************************************************)
base_option(name, type_hash) ==
  [m_name |-> name, m_type_hash |-> type_hash, m_help |-> "",
   m_short_name |-> "", m_keep |-> FALSE, m_necessary |-> FALSE,
   m_allow_override |-> FALSE, m_hidden_from_help |-> FALSE,
   m_one_of_err |-> ""]

typed_option(name, T) ==
  base_option(name, T) @@
  [dyn_type |-> "typed_option", m_value |-> << >>,
   m_default_value |-> << >>, m_one_of |-> {}, m_location |-> "nullptr"]

typed_option_with_location(name, T) ==
  [typed_option(name, T) EXCEPT !.dyn_type = "typed_option_with_location",
                                !.m_location = "&loc"]

(***************************************************************************)
(* Operations of typed_option<T>, as functions of the object.              *)
(***************************************************************************)
set_default_value_and_value(o, value) ==
  [o EXCEPT !.m_default_value = <<value>>, !.m_value = <<value>>]

set_default_value(o, value) == [o EXCEPT !.m_default_value = <<value>>]

default_value_supplied(o) == o.m_default_value # << >>

default_value(o) ==
  IF o.m_default_value # << >> THEN Ok(o.m_default_value[1])
  ELSE Throw("typed_option does not contain default value.")

value_supplied(o) == o.m_value # << >>

invalid_choice_error_string(o, value) ==
  "Error: '" \o value \o "' is not a valid choice for option --" \o o.m_name
    \o ". Please select from {"
    \o Join(o.m_type_hash, SetInOrder(o.m_type_hash, o.m_one_of), ", ")
    \o "}"

invalid_choice_error(o, value) ==
  CASE o.m_type_hash = "std::string" -> invalid_choice_error_string(o, value)
    [] o.m_type_hash \in UnsignedTypes \cup SignedTypes ->
         invalid_choice_error_string(o, to_string(value))
    [] OTHER -> ""

value_set_callback_ungated(o, location, value, called_from_add_and_parse) ==
  IF o.dyn_type = "typed_option_with_location" /\ o.m_location # "nullptr"
  THEN value ELSE location

value_set_callback(o, location, value, called_from_add_and_parse) ==
  IF o.dyn_type = "typed_option_with_location"
  THEN IF o.m_location # "nullptr" /\ called_from_add_and_parse
       THEN value ELSE location
  ELSE location

value_set_rejecting(o, value) ==
  IF Cardinality(o.m_one_of) > 0 /\ value \notin o.m_one_of
  THEN [o EXCEPT !.m_one_of_err = invalid_choice_error(o, value)]
  ELSE [o EXCEPT !.m_value = <<value>>]

value_set_clearing(o, value) ==
  LET stored == [o EXCEPT !.m_value = <<value>>]
  IN [stored EXCEPT !.m_one_of_err =
        IF Cardinality(stored.m_one_of) > 0 /\ value \notin stored.m_one_of
        THEN invalid_choice_error(stored, value) ELSE ""]

value_set(o, value) ==
  LET stored == [o EXCEPT !.m_value = <<value>>]
  IN IF Cardinality(stored.m_one_of) > 0 /\ value \notin stored.m_one_of
     THEN [stored EXCEPT !.m_one_of_err = invalid_choice_error(stored, value)]
     ELSE stored

value_get_or_default(o) ==
  IF o.m_value # << >> THEN Ok(o.m_value[1])
  ELSE IF o.m_default_value # << >> THEN Ok(o.m_default_value[1])
  ELSE Throw("typed_option does not contain value.")

value_get(o) ==
  IF o.m_value # << >> THEN Ok(o.m_value[1])
  ELSE Throw("typed_option does not contain value.")

set_one_of_validating(o, one_of_set) ==
  LET replaced == [o EXCEPT !.m_one_of = one_of_set]
  IN IF o.m_value # << >> /\ one_of_set # {}
     THEN [replaced EXCEPT !.m_one_of_err =
             IF o.m_value[1] \in one_of_set THEN "" ELSE "invalid choice"]
     ELSE replaced

set_one_of(o, one_of_set) == [o EXCEPT !.m_one_of = one_of_set]

one_of(o) == o.m_one_of

NoCalls == [t \in Types |-> 0]

visit(visitor, t) == [visitor EXCEPT ![t] = @ + 1]

accept_widened(o, visitor) ==
  visit(visitor, IF o.m_type_hash = "int32_t" THEN "int64_t"
                 ELSE IF o.m_type_hash = "uint32_t" THEN "uint64_t"
                 ELSE o.m_type_hash)

accept(o, visitor) == visit(visitor, o.m_type_hash)

(***************************************************************************)
(* operator== and operator!= on two typed_option<T>.  The conjunction is   *)
(* evaluated left to right and stops at the first false operand.  The two  *)
(* default_value() calls may run in either order; each throws the same     *)
(* failure when its side has no default, so the order is not observable.   *)
(***************************************************************************)
typed_option_eq(lhs, rhs) ==
  IF ~(/\ lhs.m_name = rhs.m_name
       /\ lhs.m_type_hash = rhs.m_type_hash
       /\ lhs.m_help = rhs.m_help
       /\ lhs.m_short_name = rhs.m_short_name
       /\ lhs.m_keep = rhs.m_keep)
  THEN Ok(FALSE)
  ELSE IF default_value(lhs)[1] = "throw" THEN default_value(lhs)
  ELSE IF default_value(rhs)[1] = "throw" THEN default_value(rhs)
  ELSE Ok(/\ default_value(lhs)[2] = default_value(rhs)[2]
          /\ lhs.m_necessary = rhs.m_necessary)

typed_option_ne(lhs, rhs) ==
  LET eq == typed_option_eq(lhs, rhs)
  IN IF eq[1] = "throw" THEN eq ELSE Ok(~eq[2])

(***************************************************************************)
(* Specification of one option under its operations.                       *)
(***************************************************************************)
Init ==
  \E T \in Types, name \in Names :
    /\ opt \in {typed_option(name, T), typed_option_with_location(name, T)}
    /\ other = typed_option(name, T)
    /\ loc \in Values(T)
    /\ last = [op |-> "construct", arg |-> << >>, ret |-> Ok("void")]
    /\ hist = [value_called |-> FALSE, default_called |-> FALSE]

SetDefaultValue ==
  \E v \in Values(opt.m_type_hash) :
    /\ opt' = set_default_value(opt, v)
    /\ last' = [op |-> "set_default_value", arg |-> <<v>>, ret |-> Ok("void")]
    /\ hist' = [hist EXCEPT !.default_called = TRUE]
    /\ UNCHANGED <<other, loc>>

DefaultValueSupplied ==
  /\ last' = [op |-> "default_value_supplied", arg |-> << >>,
              ret |-> Ok(default_value_supplied(opt))]
  /\ UNCHANGED <<opt, other, loc, hist>>

DefaultValue ==
  /\ last' = [op |-> "default_value", arg |-> << >>, ret |-> default_value(opt)]
  /\ UNCHANGED <<opt, other, loc, hist>>

ValueSupplied ==
  /\ last' = [op |-> "value_supplied", arg |-> << >>,
              ret |-> Ok(value_supplied(opt))]
  /\ UNCHANGED <<opt, other, loc, hist>>

ValueSet ==
  \E v \in Values(opt.m_type_hash), called_from_add_and_parse \in BOOLEAN :
    /\ opt' = value_set(opt, v)
    /\ loc' = value_set_callback(opt, loc, v, called_from_add_and_parse)
    /\ last' = [op |-> "value_set", arg |-> <<v, called_from_add_and_parse>>,
                ret |-> Ok("*this")]
    /\ hist' = [hist EXCEPT !.value_called = TRUE]
    /\ UNCHANGED other

ValueGet ==
  /\ last' = [op |-> "value_get", arg |-> << >>, ret |-> value_get(opt)]
  /\ UNCHANGED <<opt, other, loc, hist>>

SetOneOf ==
  \E S \in SUBSET Values(opt.m_type_hash) :
    /\ opt' = set_one_of(opt, S)
    /\ last' = [op |-> "set_one_of", arg |-> <<S>>, ret |-> Ok("void")]
    /\ UNCHANGED <<other, loc, hist>>

OneOf ==
  /\ last' = [op |-> "one_of", arg |-> << >>, ret |-> Ok(one_of(opt))]
  /\ UNCHANGED <<opt, other, loc, hist>>

Accept ==
  /\ last' = [op |-> "accept", arg |-> <<NoCalls>>,
              ret |-> Ok(accept(opt, NoCalls))]
  /\ UNCHANGED <<opt, other, loc, hist>>

Next ==
  \/ SetDefaultValue
  \/ DefaultValueSupplied
  \/ DefaultValue
  \/ ValueSupplied
  \/ ValueSet
  \/ ValueGet
  \/ SetOneOf
  \/ OneOf
  \/ Accept

Spec == Init /\ [][Next]_vars

(***************************************************************************)
(* Specification of operator== and operator!= on two options of one type.  *)
(* Both operands are options the operations above can produce: the public  *)
(* metadata fields are assigned after construction, the default by         *)
(* set_default_value, the choice set by set_one_of, the value by value().  *)
(***************************************************************************)
with_metadata(o, help, short_name, keep, necessary, flag) ==
  [o EXCEPT !.m_help = help, !.m_short_name = short_name, !.m_keep = keep,
            !.m_necessary = necessary, !.m_allow_override = flag,
            !.m_hidden_from_help = flag]

with_default(o, d) == IF d = << >> THEN o ELSE set_default_value(o, d[1])

with_value(o, assigned) ==
  IF assigned
  THEN LET lo == CHOOSE v \in Values(o.m_type_hash) : TRUE
           hi == CHOOSE v \in Values(o.m_type_hash) : v # lo
       IN value_set(set_one_of(o, {lo}), hi)
  ELSE o

OptionalValues(T) == {<< >>} \cup {<<v>> : v \in Values(T)}

EqOperands(T) ==
  {with_value(with_default(with_metadata(typed_option(name, T), help,
                                         short_name, keep, necessary, flag),
                           d),
              flag) :
     name \in Names, help \in Helps, short_name \in ShortNames,
     keep \in BOOLEAN, necessary \in BOOLEAN, flag \in BOOLEAN,
     d \in OptionalValues(T)}

InitEq ==
  \E T \in Types :
    /\ opt \in EqOperands(T)
    /\ other \in EqOperands(T)
    /\ loc = CHOOSE v \in Values(T) : TRUE
    /\ last = [op |-> "construct", arg |-> << >>, ret |-> Ok("void")]
    /\ hist = [value_called |-> value_supplied(opt),
               default_called |-> default_value_supplied(opt)]

Equals ==
  /\ last' = [op |-> "operator==", arg |-> << >>,
              ret |-> typed_option_eq(opt, other)]
  /\ UNCHANGED <<opt, other, loc, hist>>

NotEquals ==
  /\ last' = [op |-> "operator!=", arg |-> << >>,
              ret |-> typed_option_ne(opt, other)]
  /\ UNCHANGED <<opt, other, loc, hist>>

NextEq == Equals \/ NotEquals

SpecEq == InitEq /\ [][NextEq]_vars

(***************************************************************************)
(* Helpers of the properties.                                              *)
(***************************************************************************)
Contains(s, sub) ==
  \E i \in 1 .. (Len(s) - Len(sub) + 1) : SubSeq(s, i, i + Len(sub) - 1) = sub

Located(o) == o.dyn_type = "typed_option_with_location"

OfferedChoices(o) ==
  Join(o.m_type_hash, SetInOrder(o.m_type_hash, o.m_one_of), ", ")

(***************************************************************************)
(* C1: immediately after value(v) returns, value_supplied() is true and    *)
(* value() returns v, whatever default, choice set or earlier value the    *)
(* option had.                                                             *)
(***************************************************************************)
C1_ReadBack ==
  last.op = "value_set" =>
    /\ value_supplied(opt)
    /\ value_get(opt)[1] = "ok"
    /\ value_get(opt)[2] = last.arg[1]

C1_Witness ==
  /\ last.op = "value_set"
  /\ default_value_supplied(opt)
  /\ opt.m_default_value[1] # last.arg[1]
  /\ opt.m_one_of # {}
  /\ last.arg[1] \notin opt.m_one_of
  /\ value_get(opt)[2] = last.arg[1]

(***************************************************************************)
(* C2: value() throws exactly when no value was ever assigned and          *)
(* default_value() throws exactly when no default was ever set; a value    *)
(* read never falls back on the default, and a read changes nothing.       *)
(***************************************************************************)
C2_ReadsState ==
  /\ last.op = "value_get" =>
       /\ (last.ret[1] = "throw") <=> ~hist.value_called
       /\ (last.ret[1] = "throw") <=> ~value_supplied(opt)
       /\ last.ret[1] = "ok" => last.ret[2] = opt.m_value[1]
  /\ last.op = "default_value" =>
       /\ (last.ret[1] = "throw") <=> ~hist.default_called
       /\ (last.ret[1] = "throw") <=> ~default_value_supplied(opt)
       /\ last.ret[1] = "ok" => last.ret[2] = opt.m_default_value[1]
  /\ last.op = "construct" =>
       /\ value_get(opt)[1] = "throw"
       /\ default_value(opt)[1] = "throw"

C2_ReadsStep ==
  last'.op \in {"value_get", "default_value"} => opt' = opt /\ loc' = loc

C2_FailFast == []C2_ReadsState /\ [][C2_ReadsStep]_vars

C2_Witness ==
  /\ last.op = "value_get"
  /\ last.ret[1] = "throw"
  /\ default_value_supplied(opt)

(***************************************************************************)
(* C3: for every value type, assigning a value outside a non-empty choice  *)
(* set leaves a non-empty one_of_error naming the option and the choices,  *)
(* and the value is stored all the same.                                   *)
(***************************************************************************)
C3_AdvisoryAllTypes ==
  (last.op = "value_set" /\ opt.m_one_of # {} /\ last.arg[1] \notin opt.m_one_of)
    => /\ opt.m_value = <<last.arg[1]>>
       /\ opt.m_one_of_err # ""
       /\ Contains(opt.m_one_of_err, opt.m_name)
       /\ Contains(opt.m_one_of_err, OfferedChoices(opt))

(***************************************************************************)
(* C4: on a located option value(v, true) leaves loc = v and               *)
(* value(v, false) leaves loc as it was; the option stores v either way;   *)
(* a plain typed option never writes the external variable.                *)
(***************************************************************************)
C4_Step ==
  /\ last'.op = "value_set" =>
       /\ opt'.m_value = <<last'.arg[1]>>
       /\ Located(opt) =>
            IF last'.arg[2] THEN loc' = last'.arg[1] ELSE loc' = loc
  /\ ~Located(opt) => loc' = loc

C5_Step ==
  (last'.op = "value_set" /\ Located(opt)) =>
    IF ~value_supplied(opt) THEN loc' = last'.arg[1] ELSE loc' = loc

C5_FirstParseWins == [][C5_Step]_vars

(***************************************************************************)
(* C7: value_supplied() is true iff the value setter was ever called,      *)
(* default_value_supplied() iff set_default_value was; each setter leaves  *)
(* the other field alone, and default_value() returns the last default.    *)
(***************************************************************************)
C7_Supplied ==
  /\ value_supplied(opt) <=> hist.value_called
  /\ default_value_supplied(opt) <=> hist.default_called
  /\ last.op = "set_default_value" =>
       default_value(opt)[1] = "ok" /\ default_value(opt)[2] = last.arg[1]

C7_Step ==
  /\ last'.op # "value_set" => opt'.m_value = opt.m_value
  /\ last'.op # "set_default_value" =>
       opt'.m_default_value = opt.m_default_value

C7_Independent == []C7_Supplied /\ [][C7_Step]_vars

C7_Witness ==
  /\ last.op = "set_default_value"
  /\ hist.value_called
  /\ value_supplied(opt)
  /\ opt.m_value[1] # opt.m_default_value[1]

(***************************************************************************)
(* C8: accept calls the visitor operation of the option's own type once    *)
(* and no other operation, and leaves the option as it was.                *)
(***************************************************************************)
C8_Calls ==
  last.op = "accept" =>
    \A t \in Types : last.ret[2][t] = IF t = opt.m_type_hash THEN 1 ELSE 0

C8_Step == last'.op = "accept" => opt' = opt /\ loc' = loc

C8_Dispatch == []C8_Calls /\ [][C8_Step]_vars

C8_Witness ==
  /\ last.op = "accept"
  /\ opt.m_type_hash = "int32_t"
  /\ last.ret[2]["int32_t"] = 1
  /\ value_supplied(opt)

(***************************************************************************)
(* C9: set_one_of replaces the choice set and nothing else: the stored     *)
(* value, the default and one_of_error stay as they were.                  *)
(***************************************************************************)
C9_Step ==
  last'.op = "set_one_of" =>
    /\ one_of(opt') = last'.arg[1]
    /\ opt'.m_value = opt.m_value
    /\ opt'.m_default_value = opt.m_default_value
    /\ opt'.m_one_of_err = opt.m_one_of_err

C9_NoRetroactiveValidation == [][C9_Step]_vars

C9_Witness ==
  /\ last.op = "set_one_of"
  /\ value_supplied(opt)
  /\ opt.m_one_of # {}
  /\ opt.m_value[1] \notin opt.m_one_of
  /\ opt.m_one_of_err = ""
  /\ opt.m_type_hash = "std::string"

(***************************************************************************)
(* C10: one_of_error is empty on a fresh option, becomes non-empty only    *)
(* by value(v) with v outside a non-empty choice set, and once non-empty   *)
(* is never emptied again.                                                 *)
(***************************************************************************)
C10_Step ==
  /\ opt.m_one_of_err # "" => opt'.m_one_of_err # ""
  /\ (opt.m_one_of_err = "" /\ opt'.m_one_of_err # "") =>
       /\ last'.op = "value_set"
       /\ opt.m_one_of # {}
       /\ last'.arg[1] \notin opt.m_one_of

C10_Sticky ==
  /\ [](last.op = "construct" => opt.m_one_of_err = "")
  /\ [][C10_Step]_vars

C10_Witness ==
  /\ opt.m_one_of_err # ""
  /\ last.op = "value_set"
  /\ opt.m_one_of # {}
  /\ last.arg[1] \in opt.m_one_of

(***************************************************************************)
(* C6: operator== returns true iff name, type_tag, help, short_name, keep, *)
(* necessary and default_value all match, also for options without a       *)
(* default, and operator!= returns its negation.                           *)
(***************************************************************************)
MetadataMatch(lhs, rhs) ==
  /\ lhs.m_name = rhs.m_name
  /\ lhs.m_type_hash = rhs.m_type_hash
  /\ lhs.m_help = rhs.m_help
  /\ lhs.m_short_name = rhs.m_short_name
  /\ lhs.m_keep = rhs.m_keep
  /\ lhs.m_necessary = rhs.m_necessary
  /\ lhs.m_default_value = rhs.m_default_value

C6_StructuralEquality ==
  /\ last.op = "operator==" =>
       /\ last.ret[1] = "ok"
       /\ last.ret[2] <=> MetadataMatch(opt, other)
  /\ last.op = "operator!=" =>
       /\ last.ret[1] = "ok"
       /\ last.ret[2] <=> ~MetadataMatch(opt, other)

====
